---- MODULE Spec2Model ----
(***************************************************************************)
(* Model of the CRDT WebSocket server: wire codec (protocol.cpp), document *)
(* replica wrapper (document.cpp), peer registry with per-peer send queue  *)
(* (peer.cpp) and the libwebsockets protocol callback (server.cpp).        *)
(*                                                                         *)
(* The server runs one lws_service loop (server.cpp:314-316); every        *)
(* callback runs to completion, so each callback reason is one action.     *)
(* The CRDT engine (libyrs) is an external library: a replica is modelled  *)
(* as the set of operations it has integrated, an update or a state vector *)
(* as one byte whose bits name operations.                                 *)
(***************************************************************************)
EXTENDS Integers, Sequences, FiniteSets, TLC

\* ---------------------------------------------------------------- bounds
MaxPeers == 3
MaxRecv == 1
MaxStep1 == 2
MaxPresence == 2
MaxUpdates == 3
MaxVarLen == 5
MaxPayload == 2
MaxQueue == 2
MaxFrames == 4
LongLen == 130
NumOps == 2

\* ------------------------------------------------------ program constants
MSG_SYNC_STEP1 == 0
MSG_SYNC_STEP2 == 1
MSG_AWARENESS == 2
MSG_INVALID == -1

Wsi == 1..MaxPeers
Ops == 1..NumOps

\* ------------------------------------------------------------------ codec
Pow2(n) == 2 ^ n

\* a uint32_t as its two 16-bit halves
U32(n) == [hi |-> n \div 65536, lo |-> n % 65536]

\* the value of a uint32_t below 2^31 as a number
U32Int(v) == v.hi * 65536 + v.lo

\* n < v for a size_t n (a small number here) and a uint32_t v
U32Above(v, n) == v.hi >= 32768 \/ U32Int(v) > n

\* mutant: the bits of the high half are not carried into the low half
Shr7_nocarry(v) == [hi |-> v.hi \div 128, lo |-> v.lo \div 128]

\* value >>= 7
Shr7(v) == [hi |-> v.hi \div 128, lo |-> (v.lo \div 128) + (v.hi % 128) * 512]

\* mutant: a continuation byte is emitted from 0x40 on
RECURSIVE encode_varuint_wide(_)
encode_varuint_wide(value) ==
    IF value.hi > 0 \/ value.lo >= 64
    THEN <<(value.lo % 128) + 128>> \o encode_varuint_wide(Shr7(value))
    ELSE <<value.lo % 128>>

RECURSIVE encode_varuint(_)
encode_varuint(value) ==
    IF value.hi > 0 \/ value.lo >= 128
    THEN <<(value.lo % 128) + 128>> \o encode_varuint(Shr7(value))
    ELSE <<value.lo % 128>>

\* (byte & 0x7F) << shift on a uint32: bits shifted past bit 31 are lost
Shl32(v, shift) ==
    IF shift < 16
    THEN [hi |-> (v * Pow2(shift)) \div 65536, lo |-> (v * Pow2(shift)) % 65536]
    ELSE [hi |-> (v * Pow2(shift - 16)) % 65536, lo |-> 0]

\* result |= bits, for bits that lie above every bit set in result
Or32(result, bits) == [hi |-> result.hi + bits.hi, lo |-> result.lo + bits.lo]

RECURSIVE decode_varuint_loop(_, _, _, _)
decode_varuint_loop(data, pos, shift, result) ==
    IF pos > Len(data)
    THEN [n |-> 0, value |-> U32(0)]
    ELSE LET byte == data[pos]
             r == Or32(result, Shl32(byte % 128, shift))
         IN  IF byte < 128
             THEN [n |-> pos, value |-> r]
             ELSE IF shift + 7 >= 32
                  THEN [n |-> 0, value |-> U32(0)]
                  ELSE decode_varuint_loop(data, pos + 1, shift + 7, r)

\* n = bytes consumed, 0 on error
decode_varuint(data) ==
    IF Len(data) = 0 THEN [n |-> 0, value |-> U32(0)]
    ELSE decode_varuint_loop(data, 1, 0, U32(0))

parse_message_type(data) ==
    IF Len(data) = 0 THEN MSG_INVALID
    ELSE IF data[1] > MSG_AWARENESS THEN MSG_INVALID
    ELSE data[1]

encode_sync_step1(state_vector) ==
    <<MSG_SYNC_STEP1>> \o encode_varuint(U32(Len(state_vector)))
       \o state_vector

encode_sync_step2(update) ==
    <<MSG_SYNC_STEP2>> \o encode_varuint(U32(Len(update))) \o update

\* mutant: a frame with a zero-length payload is rejected
DecodeFramed_nonempty(data, kind) ==
    IF Len(data) < 3 THEN [ok |-> FALSE, payload |-> <<>>]
    ELSE IF data[1] # kind THEN [ok |-> FALSE, payload |-> <<>>]
    ELSE LET v == decode_varuint(Tail(data))
             payload_offset == 1 + v.n
             remaining == Len(data) - payload_offset
         IN  IF v.n = 0 \/ v.value = U32(0)
             THEN [ok |-> FALSE, payload |-> <<>>]
             ELSE IF U32Above(v.value, remaining)
                  THEN [ok |-> FALSE, payload |-> <<>>]
             ELSE [ok |-> TRUE,
                   payload |-> SubSeq(data, payload_offset + 1,
                                      payload_offset + U32Int(v.value))]

\* shared body of decode_sync_step1 / decode_sync_step2
DecodeFramed(data, kind) ==
    IF Len(data) < 2 THEN [ok |-> FALSE, payload |-> <<>>]
    ELSE IF data[1] # kind THEN [ok |-> FALSE, payload |-> <<>>]
    ELSE LET v == decode_varuint(Tail(data))
             payload_offset == 1 + v.n
             remaining == Len(data) - payload_offset
         IN  IF v.n = 0 THEN [ok |-> FALSE, payload |-> <<>>]
             ELSE IF U32Above(v.value, remaining)
                  THEN [ok |-> FALSE, payload |-> <<>>]
             ELSE [ok |-> TRUE,
                   payload |-> SubSeq(data, payload_offset + 1,
                                      payload_offset + U32Int(v.value))]

decode_sync_step1(data) == DecodeFramed(data, MSG_SYNC_STEP1)

decode_sync_step2(data) == DecodeFramed(data, MSG_SYNC_STEP2)

encode_awareness(client_id, state_json) ==
    LET body == encode_varuint(client_id)
                \o encode_varuint(U32(Len(state_json))) \o state_json
    IN  <<MSG_AWARENESS>> \o encode_varuint(U32(Len(body))) \o body

AwFail == [ok |-> FALSE, client_id |-> U32(0), state_json |-> <<>>]

decode_awareness(data) ==
    IF Len(data) < 2 THEN AwFail
    ELSE IF data[1] # MSG_AWARENESS THEN AwFail
    ELSE LET pl == decode_varuint(Tail(data))
             payload_offset == 1 + pl.n
         IN  IF pl.n = 0 THEN AwFail
             ELSE IF U32Above(pl.value, Len(data) - payload_offset)
                  THEN AwFail
             ELSE LET payload == SubSeq(data, payload_offset + 1,
                                        payload_offset + U32Int(pl.value))
                      cid == decode_varuint(payload)
                      rest1 == SubSeq(payload, cid.n + 1, Len(payload))
                      jl == decode_varuint(rest1)
                      rest2 == SubSeq(rest1, jl.n + 1, Len(rest1))
                  IN  IF cid.n = 0 THEN AwFail
                      ELSE IF jl.n = 0 THEN AwFail
                      ELSE IF U32Above(jl.value, Len(rest2)) THEN AwFail
                      ELSE [ok |-> TRUE, client_id |-> cid.value,
                            state_json |-> SubSeq(rest2, 1,
                                                  U32Int(jl.value))]

\* ------------------------------------------------------- document replica
MaskToSet(m) == {i \in Ops : (m \div Pow2(i - 1)) % 2 = 1}

SetToMask(S) == CHOOSE m \in 0..(Pow2(NumOps) - 1) : MaskToSet(m) = S

V2Base == Pow2(NumOps + 2)

\* libyrs ytransaction_apply: 0 on success, the operations it integrates
ytransaction_apply(update) ==
    IF Len(update) = 1 /\ update[1] < Pow2(NumOps)
    THEN [err |-> 0, ops |-> MaskToSet(update[1])]
    ELSE [err |-> 1, ops |-> {}]

ytransaction_apply_v2(update) ==
    IF Len(update) = 1 /\ update[1] >= V2Base
       /\ update[1] < V2Base + Pow2(NumOps)
    THEN [err |-> 0, ops |-> MaskToSet(update[1] - V2Base)]
    ELSE [err |-> 1, ops |-> {}]

\* the library calls Document::apply_update can make
V1 == "ytransaction_apply"
V2 == "ytransaction_apply_v2"

\* mutant: the replica is replaced by the update instead of merged with it
apply_update_replace(d, update) ==
    IF Len(update) = 0 THEN [ok |-> FALSE, doc |-> d, calls |-> <<>>]
    ELSE LET v1 == ytransaction_apply(update)
             v2 == ytransaction_apply_v2(update)
         IN  IF v1.err = 0
             THEN [ok |-> TRUE, doc |-> v1.ops, calls |-> <<V1>>]
             ELSE IF v2.err = 0
                  THEN [ok |-> TRUE, doc |-> v2.ops, calls |-> <<V1, V2>>]
                  ELSE [ok |-> FALSE, doc |-> d, calls |-> <<V1, V2>>]

\* mutant: the V2 format is tried first, V1 only when it fails
apply_update_v2first(d, update) ==
    IF Len(update) = 0 THEN [ok |-> FALSE, doc |-> d, calls |-> <<>>]
    ELSE LET v1 == ytransaction_apply(update)
             v2 == ytransaction_apply_v2(update)
         IN  IF v2.err = 0
             THEN [ok |-> TRUE, doc |-> d \cup v2.ops, calls |-> <<V2>>]
             ELSE IF v1.err = 0
                  THEN [ok |-> TRUE, doc |-> d \cup v1.ops,
                        calls |-> <<V2, V1>>]
                  ELSE [ok |-> FALSE, doc |-> d, calls |-> <<V2, V1>>]

\* Document::apply_update on replica d: V1 first, then V2; calls lists the
\* library calls made, in order
apply_update(d, update) ==
    IF Len(update) = 0 THEN [ok |-> FALSE, doc |-> d, calls |-> <<>>]
    ELSE LET v1 == ytransaction_apply(update)
             v2 == ytransaction_apply_v2(update)
         IN  IF v1.err = 0
             THEN [ok |-> TRUE, doc |-> d \cup v1.ops, calls |-> <<V1>>]
             ELSE IF v2.err = 0
                  THEN [ok |-> TRUE, doc |-> d \cup v2.ops,
                        calls |-> <<V1, V2>>]
                  ELSE [ok |-> FALSE, doc |-> d, calls |-> <<V1, V2>>]

\* libyrs ytransaction_state_diff_v1: what d holds beyond the state vector;
\* an undecodable state vector yields no diff
ytransaction_state_diff_v1(d, sv) ==
    IF Len(sv) = 0 THEN <<SetToMask(d)>>
    ELSE IF Len(sv) = 1 /\ sv[1] < Pow2(NumOps)
         THEN <<SetToMask(d \ MaskToSet(sv[1]))>>
         ELSE <<>>

\* mutant: the snapshot of an empty replica
get_state_as_update_empty(d) == <<SetToMask({})>>

get_state_as_update(d) == ytransaction_state_diff_v1(d, <<>>)

get_state_diff(d, client_sv) == ytransaction_state_diff_v1(d, client_sv)

\* ---------------------------------------------------------------- inputs
F_S1_EMPTY == <<0, 0>>
F_S1_SV1 == <<0, 1, 1>>
F_UPD1_LONGLEN == <<1, 129, 0, 1>>
F_UPD2_TRAIL == <<1, 1, 2, 9>>
F_UPD_BAD == <<1, 1, 255>>
F_AW5 == <<2, 3, 5, 1, 7>>
F_UNKNOWN == <<255>>
\* a SYNC_STEP1 whose payload is shorter than its declared length
F_S1_SHORT == <<0, 2, 1>>
\* SYNC_STEP2 frames that fail to decode: short payload, overlong varuint
F_UPD_SHORT == <<1, 2, 1>>
F_UPD_OVERFLOW == <<1, 128, 128, 128, 128, 128, 0>>
\* AWARENESS frames: zero-length JSON, client id 0, JSON shorter than declared
F_AW5_EMPTY == <<2, 2, 5, 0>>
F_AW0 == <<2, 3, 0, 1, 7>>
F_AW_SHORT == <<2, 3, 5, 2, 7>>

InFrames ==
    {F_S1_EMPTY, F_S1_SV1, F_UPD1_LONGLEN, F_UPD2_TRAIL, F_UPD_BAD,
     F_AW5, F_UNKNOWN, F_S1_SHORT, F_UPD_SHORT, F_UPD_OVERFLOW,
     F_AW5_EMPTY, F_AW0, F_AW_SHORT}

\* AWARENESS frames of one peer over time: a second JSON for client 5, a
\* second client id
F_AW5B == <<2, 3, 5, 1, 9>>
F_AW6 == <<2, 3, 6, 1, 8>>

PresenceFrames == {F_AW5, F_AW5B, F_AW6, F_AW5_EMPTY, F_AW_SHORT}

\* SYNC_STEP2 frames of several peers: V1 and V2 updates, one rejected
F_UPD1 == <<1, 1, 1>>
F_UPD2 == <<1, 1, 2>>
F_UPD2_V2 == <<1, 1, 18>>

UpdateFrames == {F_UPD1, F_UPD2, F_UPD2_V2, F_UPD1_LONGLEN, F_UPD_BAD}

\* the frames the web client sends: SYNC_STEP1 with its state vector,
\* SYNC_STEP2 with an update
ClientFrames ==
    {encode_sync_step1(<<m>>) : m \in 0..(Pow2(NumOps) - 1)}
    \cup {encode_sync_step2(<<m>>) : m \in 0..(Pow2(NumOps) - 1)}

\* byte strings of at most n bytes over the bytes B
SeqsUpTo(B, n) == UNION {[1..k -> B] : k \in 0..n}

\* uint32 values around every change of encoded length, as halves
VarHi == {0, 1, 31, 32, 4095, 4096, 32767, 32768, 65535}
VarLo == {0, 1, 127, 128, 300, 16383, 16384, 65535}
VarSamples == {[hi |-> h, lo |-> l] : h \in VarHi, l \in VarLo}

\* inputs of decode_varuint
VarBytes == {0, 15, 16, 127, 128, 255}
DecSamples == SeqsUpTo(VarBytes, MaxVarLen)

\* payloads: every short one and one whose length needs two varuint bytes
PayloadBytes == {0, 1, 128, 255}
LongPayload == [i \in 1..LongLen |-> i % 256]
Payloads == SeqsUpTo(PayloadBytes, MaxPayload) \cup {LongPayload}

AwIds == {U32(0), U32(5), U32(128), [hi |-> 65535, lo |-> 65535]}

\* inputs of apply_update: the empty update, every one-byte update up to
\* just past the V2 range, an unreadable byte and a two-byte update
UpdateSamples ==
    {<<>>, <<255>>, <<1, 1>>}
    \cup {<<b>> : b \in 0..(V2Base + Pow2(NumOps) + 1)}

CodecCalls ==
    {[fn |-> "varuint", arg |-> n] : n \in VarSamples}
    \cup {[fn |-> "decode_varuint", arg |-> b] : b \in DecSamples}
    \cup {[fn |-> "frame", kind |-> k, arg |-> p] :
             k \in {MSG_SYNC_STEP1, MSG_SYNC_STEP2}, p \in Payloads}
    \cup {[fn |-> "awareness", id |-> i, json |-> p] :
             i \in AwIds, p \in Payloads}
    \cup {[fn |-> "apply_update", doc |-> d, arg |-> u] :
             d \in SUBSET Ops, u \in UpdateSamples}

\* ------------------------------------------------------------------ state
VARIABLES
    g_peers,     \* the registry list, head first
    peer,        \* the Peer struct of each handle in the list
    g_document,  \* the replica: operations integrated so far
    writable,    \* handles with a pending lws_callback_on_writable request
    sent,        \* history: per peer, every frame enqueued on it, with its cause
    written,     \* history: per peer, every frame handed to lws_write
    stderr,      \* the error lines printed so far, as a set
    applied,     \* history: the updates apply_update accepted, in order
    nConnects,   \* connections accepted so far; each gets a fresh handle
    quotaStep1,  \* SYNC_STEP1 frames the peers may still send
    quotaRecv,   \* other frames the peers may still send
    call,        \* the last direct call of a library function, with its input
    ret          \* what that call returned

vars == <<g_peers, peer, g_document, writable, sent, written, stderr, applied,
          nConnects, quotaStep1, quotaRecv, call, ret>>

NoCall == [fn |-> "none"]

\* the fprintf(stderr, ...) lines of callback_crdt
ERR_APPLY == "Failed to apply update"
ERR_DECODE_STEP2 == "Failed to decode SYNC_STEP2 message"
ERR_DECODE_AWARENESS == "Failed to decode AWARENESS message"
ERR_UNKNOWN == "Unknown message type"
ERR_WRITE == "Write failed"

\* mutant: the new Peer starts out synced
NoPeer_synced == [synced |-> TRUE, client_id |-> U32(0),
                  awareness_json |-> <<>>, pending_queue |-> <<>>]

NoPeer == [synced |-> FALSE, client_id |-> U32(0), awareness_json |-> <<>>,
           pending_queue |-> <<>>]

Listed(w) == \E i \in 1..Len(g_peers) : g_peers[i] = w

InitWith(step1, recv, c) ==
    /\ g_peers = <<>>
    /\ peer = [w \in Wsi |-> NoPeer]
    /\ g_document = {}
    /\ writable = [w \in Wsi |-> FALSE]
    /\ sent = [w \in Wsi |-> <<>>]
    /\ written = [w \in Wsi |-> <<>>]
    /\ stderr = {}
    /\ applied = <<>>
    /\ nConnects = 0
    /\ quotaStep1 = step1
    /\ quotaRecv = recv
    /\ call = c
    /\ ret = NoCall

Init == InitWith(MaxStep1, MaxRecv, NoCall)


\* --------------------------------------------------------- peer registry
\* peers_add: a zeroed Peer linked at the head of the list
peers_add(list, w) == <<w>> \o list

\* mutant: the head of the list is unlinked whatever the handle
peers_remove_head(list, w) == IF list = <<>> THEN <<>> ELSE Tail(list)

\* peers_remove: unlink the first entry with this handle
RECURSIVE peers_remove(_, _)
peers_remove(list, w) ==
    IF list = <<>> THEN <<>>
    ELSE IF Head(list) = w THEN Tail(list)
    ELSE <<Head(list)>> \o peers_remove(Tail(list), w)

\* mutant: the copy is linked at the head of the queue
peer_queue_message_front(queue, data) == <<data>> \o queue

\* peer_queue_message: a private copy linked at the tail of the queue
peer_queue_message(queue, data) == Append(queue, data)

\* mutant: the newest frame is taken instead of the oldest
peer_dequeue_message_last(queue) == queue[Len(queue)]

\* peer_dequeue_message: the head of the queue
peer_dequeue_message(queue) == Head(queue)

Msg(data, cause, from) == [data |-> data, cause |-> cause, from |-> from]

RECURSIVE QueueAll(_, _)
QueueAll(queue, msgs) ==
    IF msgs = <<>> THEN queue
    ELSE QueueAll(peer_queue_message(queue, Head(msgs).data), Tail(msgs))

NoMsgs == [w \in Wsi |-> <<>>]

\* the peer table after each handle w has had add[w] queued in order
Queued(pr, add) ==
    [w \in Wsi |-> [pr[w] EXCEPT !.pending_queue = QueueAll(@, add[w])]]

\* mutant: peer_queue_message does not ask for a writable callback
Requested_none(add) == [w \in Wsi |-> writable[w]]

\* peer_queue_message ends with lws_callback_on_writable(p->wsi)
Requested(add) == [w \in Wsi |-> writable[w] \/ add[w] # <<>>]

Logged(add) == [w \in Wsi |-> sent[w] \o add[w]]

\* mutant: the loop stops after the first eligible peer
server_broadcast_first(data, exclude) ==
    [w \in Wsi |->
        IF /\ Len(data) # 0 /\ Listed(w) /\ w # exclude /\ peer[w].synced
           /\ \A i \in 1..Len(g_peers), j \in 1..Len(g_peers) :
                 (g_peers[j] = w /\ i < j) =>
                    (g_peers[i] = exclude \/ ~peer[g_peers[i]].synced)
        THEN <<Msg(data, "update", exclude)>>
        ELSE <<>>]

\* mutant: the sender is not excluded
server_broadcast_all(data, exclude) ==
    [w \in Wsi |->
        IF Len(data) # 0 /\ Listed(w) /\ peer[w].synced
        THEN <<Msg(data, "update", exclude)>>
        ELSE <<>>]

\* mutant: the synced flag is not tested
server_broadcast_unsynced(data, exclude) ==
    [w \in Wsi |->
        IF Len(data) # 0 /\ Listed(w) /\ w # exclude
        THEN <<Msg(data, "update", exclude)>>
        ELSE <<>>]

\* mutant: the decoded update is framed again instead of relaying the frame
server_broadcast_reencode(data, exclude) ==
    [w \in Wsi |->
        IF Len(data) # 0 /\ Listed(w) /\ w # exclude /\ peer[w].synced
        THEN <<Msg(encode_sync_step2(decode_sync_step2(data).payload),
                   "update", exclude)>>
        ELSE <<>>]

\* server_broadcast: every listed, synced peer but the excluded handle
server_broadcast(data, exclude) ==
    [w \in Wsi |->
        IF Len(data) # 0 /\ Listed(w) /\ w # exclude /\ peer[w].synced
        THEN <<Msg(data, "update", exclude)>>
        ELSE <<>>]

\* mutant: the reply is queued on every listed peer
ReplyTo_all(wsi, msg) ==
    [w \in Wsi |-> IF Listed(w) THEN <<Msg(msg, "reply", wsi)>> ELSE <<>>]

\* mutant: a peer that is already synced gets no reply
ReplyTo_once(wsi, msg) ==
    [w \in Wsi |->
        IF w = wsi /\ ~peer[wsi].synced
        THEN <<Msg(msg, "reply", wsi)>> ELSE <<>>]

\* the SYNC_STEP1 reply: queued on the requesting peer alone
ReplyTo(wsi, msg) ==
    [w \in Wsi |-> IF w = wsi THEN <<Msg(msg, "reply", wsi)>> ELSE <<>>]

\* mutant: the frame is queued twice on each peer
RelayAll_twice(data, cause, wsi) ==
    [w \in Wsi |->
        IF Listed(w) /\ w # wsi
        THEN <<Msg(data, cause, wsi), Msg(data, cause, wsi)>> ELSE <<>>]

\* mutant: the relay loop tests the synced flag as server_broadcast does
RelayAll_synced(data, cause, wsi) ==
    [w \in Wsi |->
        IF Listed(w) /\ w # wsi /\ peer[w].synced
        THEN <<Msg(data, cause, wsi)>> ELSE <<>>]

\* mutant: the originating handle is not skipped
RelayAll_self(data, cause, wsi) ==
    [w \in Wsi |-> IF Listed(w) THEN <<Msg(data, cause, wsi)>> ELSE <<>>]

\* mutant: the loop also visits handles that are no longer in the list
RelayAll_stale(data, cause, wsi) ==
    [w \in Wsi |-> IF w # wsi THEN <<Msg(data, cause, wsi)>> ELSE <<>>]

\* the relay loops of the AWARENESS and CLOSED cases: every listed peer
\* but the originating handle
RelayAll(data, cause, wsi) ==
    [w \in Wsi |->
        IF Listed(w) /\ w # wsi THEN <<Msg(data, cause, wsi)>> ELSE <<>>]

\* mutant: the full state is pushed to the new peer on connect
RECURSIVE PrimeMsgs_state(_, _)
PrimeMsgs_state(list, new) ==
    IF list = <<>> THEN <<>>
    ELSE LET p == Head(list)
         IN  (IF p = new
              THEN <<Msg(encode_sync_step2(get_state_as_update(g_document)),
                         "reply", new)>>
              ELSE IF peer[p].client_id # U32(0) /\ peer[p].awareness_json # <<>>
              THEN <<Msg(encode_awareness(peer[p].client_id,
                                          peer[p].awareness_json),
                         "prime", p)>>
              ELSE <<>>) \o PrimeMsgs_state(Tail(list), new)

\* mutant: the cached JSON is not tested
RECURSIVE PrimeMsgs_nojson(_, _)
PrimeMsgs_nojson(list, new) ==
    IF list = <<>> THEN <<>>
    ELSE LET p == Head(list)
         IN  (IF p # new /\ peer[p].client_id # U32(0)
              THEN <<Msg(encode_awareness(peer[p].client_id,
                                          peer[p].awareness_json),
                         "prime", p)>>
              ELSE <<>>) \o PrimeMsgs_nojson(Tail(list), new)

\* the priming loop of ESTABLISHED over the list, in list order
RECURSIVE PrimeMsgs(_, _)
PrimeMsgs(list, new) ==
    IF list = <<>> THEN <<>>
    ELSE LET p == Head(list)
         IN  (IF p # new /\ peer[p].client_id # U32(0)
                 /\ peer[p].awareness_json # <<>>
              THEN <<Msg(encode_awareness(peer[p].client_id,
                                          peer[p].awareness_json),
                         "prime", p)>>
              ELSE <<>>) \o PrimeMsgs(Tail(list), new)

\* ------------------------------------------------------------- callbacks
\* LWS_CALLBACK_ESTABLISHED
Established(w) ==
    /\ w = nConnects + 1
    /\ LET list == peers_add(g_peers, w)
           add == [x \in Wsi |-> IF x = w THEN PrimeMsgs(list, w) ELSE <<>>]
       IN  /\ g_peers' = list
           /\ peer' = Queued([peer EXCEPT ![w] = [NoPeer EXCEPT
                                                      !.synced = FALSE]],
                             add)
           /\ writable' = [Requested(add) EXCEPT ![w] = add[w] # <<>>]
           /\ sent' = [sent EXCEPT ![w] = add[w]]
           /\ written' = [written EXCEPT ![w] = <<>>]
    /\ nConnects' = nConnects + 1
    /\ UNCHANGED <<g_document, stderr, applied, quotaStep1, quotaRecv,
                   call, ret>>

\* LWS_CALLBACK_CLOSED
Closed(w) ==
    /\ Listed(w)
    /\ LET add == IF peer[w].client_id # U32(0)
                  THEN RelayAll(encode_awareness(peer[w].client_id, <<>>),
                                "remove", w)
                  ELSE NoMsgs
       IN  /\ g_peers' = peers_remove(g_peers, w)
           /\ peer' = [Queued(peer, add) EXCEPT ![w] = NoPeer]
           /\ writable' = [Requested(add) EXCEPT ![w] = FALSE]
           /\ sent' = [Logged(add) EXCEPT ![w] = <<>>]
           /\ written' = [written EXCEPT ![w] = <<>>]
    /\ UNCHANGED <<g_document, stderr, applied, nConnects, quotaStep1,
                   quotaRecv, call, ret>>

Receivable(w, data) ==
    /\ Listed(w)
    /\ data \in InFrames \cup PresenceFrames \cup UpdateFrames
                \cup ClientFrames
    /\ IF parse_message_type(data) = MSG_SYNC_STEP1
       THEN quotaStep1 > 0 ELSE quotaRecv > 0

Received(w, data) ==
    /\ IF parse_message_type(data) = MSG_SYNC_STEP1
       THEN quotaStep1' = quotaStep1 - 1 /\ UNCHANGED quotaRecv
       ELSE quotaRecv' = quotaRecv - 1 /\ UNCHANGED quotaStep1
    /\ UNCHANGED <<g_peers, written, nConnects, call, ret>>

\* LWS_CALLBACK_RECEIVE, msg_type == MSG_SYNC_STEP1
ReceiveSyncStep1(w, data) ==
    /\ Receivable(w, data)
    /\ parse_message_type(data) = MSG_SYNC_STEP1
    /\ LET state == get_state_as_update(g_document)
           msg == encode_sync_step2(state)
           add == ReplyTo(w, msg)
       IN  /\ peer' = [Queued(peer, add) EXCEPT ![w].synced = TRUE]
           /\ writable' = Requested(add)
           /\ sent' = Logged(add)
    /\ Received(w, data)
    /\ UNCHANGED <<g_document, stderr, applied>>

\* mutant: the frame is broadcast whether or not apply_update accepted it
ReceiveSyncStep2_always(w, data) ==
    /\ Receivable(w, data)
    /\ parse_message_type(data) = MSG_SYNC_STEP2
    /\ LET d == decode_sync_step2(data)
           r == apply_update(g_document, d.payload)
           add == IF d.ok /\ Len(d.payload) > 0
                  THEN server_broadcast(data, w)
                  ELSE NoMsgs
       IN  /\ g_document' = IF d.ok /\ Len(d.payload) > 0 THEN r.doc
                            ELSE g_document
           /\ peer' = Queued(peer, add)
           /\ writable' = Requested(add)
           /\ sent' = Logged(add)
           /\ stderr' = IF ~(d.ok /\ Len(d.payload) > 0)
                        THEN stderr \cup {ERR_DECODE_STEP2}
                        ELSE IF ~r.ok THEN stderr \cup {ERR_APPLY}
                        ELSE stderr
           /\ applied' = IF d.ok /\ Len(d.payload) > 0 /\ r.ok
                         THEN Append(applied, [payload |-> d.payload,
                                               from |-> w])
                         ELSE applied
    /\ Received(w, data)

\* LWS_CALLBACK_RECEIVE, msg_type == MSG_SYNC_STEP2
ReceiveSyncStep2(w, data) ==
    /\ Receivable(w, data)
    /\ parse_message_type(data) = MSG_SYNC_STEP2
    /\ LET d == decode_sync_step2(data)
           r == apply_update(g_document, d.payload)
           add == IF d.ok /\ Len(d.payload) > 0 /\ r.ok
                  THEN server_broadcast(data, w)
                  ELSE NoMsgs
       IN  /\ g_document' = IF d.ok /\ Len(d.payload) > 0 THEN r.doc
                            ELSE g_document
           /\ peer' = Queued(peer, add)
           /\ writable' = Requested(add)
           /\ sent' = Logged(add)
           /\ stderr' = IF ~(d.ok /\ Len(d.payload) > 0)
                        THEN stderr \cup {ERR_DECODE_STEP2}
                        ELSE IF ~r.ok THEN stderr \cup {ERR_APPLY}
                        ELSE stderr
           /\ applied' = IF d.ok /\ Len(d.payload) > 0 /\ r.ok
                         THEN Append(applied, [payload |-> d.payload,
                                               from |-> w])
                         ELSE applied
    /\ Received(w, data)

\* mutant: a zero-length JSON leaves the cached JSON in place
ReceiveAwareness_keep(w, data) ==
    /\ Receivable(w, data)
    /\ parse_message_type(data) = MSG_AWARENESS
    /\ LET a == decode_awareness(data)
           add == IF a.ok THEN RelayAll(data, "awareness", w) ELSE NoMsgs
           stored == IF a.ok
                     THEN [peer EXCEPT ![w].client_id = a.client_id,
                                       ![w].awareness_json =
                                          IF a.state_json = <<>> THEN @
                                          ELSE a.state_json]
                     ELSE peer
       IN  /\ peer' = Queued(stored, add)
           /\ writable' = Requested(add)
           /\ sent' = Logged(add)
           /\ stderr' = IF a.ok THEN stderr
                        ELSE stderr \cup {ERR_DECODE_AWARENESS}
    /\ Received(w, data)
    /\ UNCHANGED <<g_document, applied>>

\* LWS_CALLBACK_RECEIVE, msg_type == MSG_AWARENESS
ReceiveAwareness(w, data) ==
    /\ Receivable(w, data)
    /\ parse_message_type(data) = MSG_AWARENESS
    /\ LET a == decode_awareness(data)
           add == IF a.ok THEN RelayAll(data, "awareness", w) ELSE NoMsgs
           stored == IF a.ok
                     THEN [peer EXCEPT ![w].client_id = a.client_id,
                                       ![w].awareness_json = a.state_json]
                     ELSE peer
       IN  /\ peer' = Queued(stored, add)
           /\ writable' = Requested(add)
           /\ sent' = Logged(add)
           /\ stderr' = IF a.ok THEN stderr
                        ELSE stderr \cup {ERR_DECODE_AWARENESS}
    /\ Received(w, data)
    /\ UNCHANGED <<g_document, applied>>

\* mutant: a frame of unknown type drops the connection
ReceiveUnknown_close(w, data) ==
    /\ Receivable(w, data)
    /\ parse_message_type(data) = MSG_INVALID
    /\ IF parse_message_type(data) = MSG_SYNC_STEP1
       THEN quotaStep1' = quotaStep1 - 1 /\ UNCHANGED quotaRecv
       ELSE quotaRecv' = quotaRecv - 1 /\ UNCHANGED quotaStep1
    /\ g_peers' = peers_remove(g_peers, w)
    /\ peer' = [peer EXCEPT ![w] = NoPeer]
    /\ writable' = [writable EXCEPT ![w] = FALSE]
    /\ sent' = [sent EXCEPT ![w] = <<>>]
    /\ written' = [written EXCEPT ![w] = <<>>]
    /\ stderr' = stderr \cup {ERR_UNKNOWN}
    /\ UNCHANGED <<g_document, applied, nConnects, call, ret>>

\* LWS_CALLBACK_RECEIVE with len == 0 or an unknown message type
ReceiveUnknown(w, data) ==
    /\ Receivable(w, data)
    /\ parse_message_type(data) = MSG_INVALID
    /\ Received(w, data)
    /\ stderr' = stderr \cup {ERR_UNKNOWN}
    /\ UNCHANGED <<peer, g_document, writable, sent, applied>>

\* LWS_CALLBACK_SERVER_WRITEABLE; ok is the outcome of lws_write, which the
\* callback only logs
Writeable(w, ok) ==
    /\ Listed(w)
    /\ writable[w]
    /\ ok \in BOOLEAN
    /\ IF peer[w].pending_queue = <<>>
       THEN /\ writable' = [writable EXCEPT ![w] = FALSE]
            /\ UNCHANGED <<peer, written, stderr>>
       ELSE LET msg == peer_dequeue_message(peer[w].pending_queue)
            IN  /\ peer' = [peer EXCEPT ![w].pending_queue = Tail(@)]
                /\ written' = [written EXCEPT ![w] = Append(@, msg)]
                /\ stderr' = IF ok THEN stderr ELSE stderr \cup {ERR_WRITE}
                /\ writable' = [writable EXCEPT ![w] = TRUE]
    /\ UNCHANGED <<g_peers, g_document, sent, applied, nConnects,
                   quotaStep1, quotaRecv, call, ret>>

Next ==
    \/ \E w \in Wsi : Established(w)
    \/ \E w \in Wsi : Closed(w)
    \/ \E w \in Wsi, data \in InFrames : ReceiveSyncStep1(w, data)
    \/ \E w \in Wsi, data \in InFrames : ReceiveSyncStep2(w, data)
    \/ \E w \in Wsi, data \in InFrames : ReceiveAwareness(w, data)
    \/ \E w \in Wsi, data \in InFrames : ReceiveUnknown(w, data)
    \/ \E w \in Wsi, ok \in BOOLEAN : Writeable(w, ok)

Spec == Init /\ [][Next]_vars

\* lws_service delivers a requested writable callback as long as the
\* connection is open
Fairness == \A w \in Wsi : WF_vars(\E ok \in BOOLEAN : Writeable(w, ok))

SpecLive == Init /\ [][Next]_vars /\ Fairness

\* peers that connect, publish their presence several times and leave,
\* without ever opening the handshake
InitPresence == InitWith(0, MaxPresence, NoCall)

NextPresence ==
    \/ \E w \in Wsi : Established(w)
    \/ \E w \in Wsi : Closed(w)
    \/ \E w \in Wsi, data \in PresenceFrames : ReceiveAwareness(w, data)
    \/ \E w \in Wsi, ok \in BOOLEAN : Writeable(w, ok)

SpecPresence == InitPresence /\ [][NextPresence]_vars

\* peers that connect, some of them open the handshake, and send updates
InitReplica == InitWith(1, MaxUpdates, NoCall)

NextReplica ==
    \/ \E w \in Wsi : Established(w)
    \/ \E w \in Wsi : ReceiveSyncStep1(w, F_S1_EMPTY)
    \/ \E w \in Wsi, data \in UpdateFrames : ReceiveSyncStep2(w, data)

SpecReplica == InitReplica /\ [][NextReplica]_vars

\* --------------------------------------------------- the codec on its own
server_vars == <<g_peers, peer, g_document, writable, sent, written, stderr,
                 applied, nConnects, quotaStep1, quotaRecv>>

\* encode_varuint, then decode_varuint on its output
Call_varuint ==
    /\ call.fn = "varuint" /\ ret = NoCall
    /\ ret' = [fn |-> "varuint",
               enc |-> encode_varuint(call.arg),
               dec |-> decode_varuint(encode_varuint(call.arg))]
    /\ UNCHANGED <<server_vars, call>>

\* decode_varuint on arbitrary bytes
Call_decode_varuint ==
    /\ call.fn = "decode_varuint" /\ ret = NoCall
    /\ ret' = [fn |-> "decode_varuint",
               n |-> decode_varuint(call.arg).n,
               value |-> decode_varuint(call.arg).value]
    /\ UNCHANGED <<server_vars, call>>

\* encode_sync_step1 / encode_sync_step2, then the matching decoder
Call_sync_frame ==
    /\ call.fn = "frame" /\ ret = NoCall
    /\ LET enc == IF call.kind = MSG_SYNC_STEP1
                  THEN encode_sync_step1(call.arg)
                  ELSE encode_sync_step2(call.arg)
       IN  ret' = [fn |-> "frame",
                   enc |-> enc,
                   kind |-> parse_message_type(enc),
                   dec |-> IF call.kind = MSG_SYNC_STEP1
                           THEN decode_sync_step1(enc)
                           ELSE decode_sync_step2(enc)]
    /\ UNCHANGED <<server_vars, call>>

\* encode_awareness, then decode_awareness
Call_awareness ==
    /\ call.fn = "awareness" /\ ret = NoCall
    /\ LET enc == encode_awareness(call.id, call.json)
       IN  ret' = [fn |-> "awareness",
                   enc |-> enc,
                   kind |-> parse_message_type(enc),
                   dec |-> decode_awareness(enc)]
    /\ UNCHANGED <<server_vars, call>>

\* ------------------------------------------- the peer registry on its own
\* peers_add up to the point where the Peer is filled in and not yet linked
Call_peers_add(w) ==
    /\ call = NoCall
    /\ ~Listed(w)
    /\ peer' = [peer EXCEPT ![w] = NoPeer]
    /\ call' = [fn |-> "peers_add", arg |-> w]
    /\ UNCHANGED <<g_peers, g_document, writable, sent, written, stderr,
                   applied, nConnects, quotaStep1, quotaRecv, ret>>

\* peers_add under g_peers_lock: the Peer is linked at the head
Return_peers_add(w) ==
    /\ call = [fn |-> "peers_add", arg |-> w]
    /\ g_peers' = peers_add(g_peers, w)
    /\ call' = NoCall
    /\ ret' = [fn |-> "peers_add", arg |-> w]
    /\ UNCHANGED <<peer, g_document, writable, sent, written, stderr,
                   applied, nConnects, quotaStep1, quotaRecv>>

\* peers_remove for any handle, listed or not; ret keeps whether the handle
\* was found and whether this call repeats a removal of the same handle
Call_peers_remove(w) ==
    /\ g_peers' = peers_remove(g_peers, w)
    /\ peer' = IF Listed(w) THEN [peer EXCEPT ![w] = NoPeer] ELSE peer
    /\ ret' = [fn |-> "peers_remove", arg |-> w, found |-> Listed(w),
               again |-> /\ ~Listed(w)
                         /\ ret.fn = "peers_remove"
                         /\ ret.arg = w
                         /\ ret.found \/ ret.again]
    /\ UNCHANGED <<g_document, writable, sent, written, stderr, applied,
                   nConnects, quotaStep1, quotaRecv, call>>

\* peer_queue_message on a peer found in the list
Call_peer_queue_message(w, data) ==
    /\ Listed(w)
    /\ Len(peer[w].pending_queue) < MaxQueue
    /\ peer' = [peer EXCEPT ![w].pending_queue =
                                peer_queue_message(@, data)]
    /\ UNCHANGED <<g_peers, g_document, writable, sent, written, stderr,
                   applied, nConnects, quotaStep1, quotaRecv, call, ret>>

\* the fields callback_crdt writes on a peer found in the list
Call_set_fields(w) ==
    /\ Listed(w)
    /\ ~peer[w].synced
    /\ peer' = [peer EXCEPT ![w].synced = TRUE,
                            ![w].client_id = U32(5),
                            ![w].awareness_json = <<7>>]
    /\ UNCHANGED <<g_peers, g_document, writable, sent, written, stderr,
                   applied, nConnects, quotaStep1, quotaRecv, call, ret>>

InitRegistry == InitWith(0, 0, NoCall)

NextRegistry ==
    \/ \E w \in Wsi : Call_peers_add(w)
    \/ \E w \in Wsi : Return_peers_add(w)
    \/ \E w \in Wsi : Call_peers_remove(w)
    \/ \E w \in Wsi : Call_peer_queue_message(w, F_AW5)
    \/ \E w \in Wsi : Call_set_fields(w)

SpecRegistry == InitRegistry /\ [][NextRegistry]_vars

\* ------------------------------------------------------- the web client
\* One YWebSocketProvider on the connection with handle 1. call holds the
\* provider (its Y.Doc, its flags, how many frames of the socket it has
\* handled), ret the frames it has sent, in order.
decodeVarUint(data) ==
    LET r == decode_varuint(data)
    IN  [ok |-> r.n > 0, value |-> U32Int(r.value), bytes |-> r.n]

encodeSyncStep1(stateVector) ==
    <<MSG_SYNC_STEP1>> \o encode_varuint(U32(Len(stateVector)))
    \o stateVector

encodeSyncStep2(update) ==
    <<MSG_SYNC_STEP2>> \o encode_varuint(U32(Len(update))) \o update

\* decodeMessage: ok = FALSE where it throws
decodeMessage(data) ==
    LET bad == [ok |-> FALSE, type |-> MSG_INVALID, payload |-> <<>>]
    IN  IF Len(data) < 2 THEN bad
        ELSE IF data[1] \notin {MSG_SYNC_STEP1, MSG_SYNC_STEP2, MSG_AWARENESS}
        THEN bad
        ELSE LET v == decodeVarUint(Tail(data))
                 payloadOffset == 1 + v.bytes
             IN  IF ~v.ok THEN bad
                 ELSE IF Len(data) - payloadOffset < v.value THEN bad
                 ELSE [ok |-> TRUE, type |-> data[1],
                       payload |-> SubSeq(data, payloadOffset + 1,
                                          payloadOffset + v.value)]

\* Y.encodeStateVector, Y.encodeStateAsUpdate and Y.applyUpdate (V1 only,
\* throws on bytes it cannot decode)
Y_encodeStateVector(doc) == <<SetToMask(doc)>>

Y_encodeStateAsUpdate(doc, stateVector) ==
    ytransaction_state_diff_v1(doc, stateVector)

Y_applyUpdate(doc, update) ==
    LET r == ytransaction_apply(update)
    IN  [ok |-> r.err = 0, doc |-> doc \cup r.ops]

\* the provider after its constructor: connect() has created the socket
NewProvider ==
    [fn |-> "provider", doc |-> {}, connected |-> FALSE, synced |-> FALSE,
     handled |-> 0]

ws == 1

ws_send(message) == ret' = [ret EXCEPT !.out = Append(@, message)]

\* a local edit: doc.on('update') runs updateHandler, which calls
\* sendUpdate only when connected and synced
LocalEdit(op) ==
    /\ call.fn = "provider"
    /\ op \notin call.doc
    /\ call' = [call EXCEPT !.doc = @ \cup {op}]
    /\ IF call.connected /\ call.synced
       THEN ws_send(encodeSyncStep2(<<SetToMask({op})>>))
       ELSE UNCHANGED ret
    /\ UNCHANGED server_vars

\* ws.onopen
handleOpen ==
    /\ call.fn = "provider"
    /\ Listed(ws)
    /\ ~call.connected
    /\ call' = [call EXCEPT !.connected = TRUE]
    /\ ws_send(encodeSyncStep1(Y_encodeStateVector(call.doc)))
    /\ UNCHANGED server_vars

\* ws.onmessage on the next frame the server has written
handleMessage ==
    /\ call.fn = "provider"
    /\ call.connected
    /\ call.handled < Len(written[ws])
    /\ LET m == decodeMessage(written[ws][call.handled + 1])
           a == Y_applyUpdate(call.doc, m.payload)
       IN  IF m.ok /\ m.type = MSG_SYNC_STEP1
           THEN /\ ws_send(encodeSyncStep2(
                             Y_encodeStateAsUpdate(call.doc, m.payload)))
                /\ call' = [call EXCEPT !.handled = @ + 1]
           ELSE IF m.ok /\ m.type = MSG_SYNC_STEP2 /\ a.ok
           THEN /\ call' = [call EXCEPT !.handled = @ + 1,
                                        !.doc = a.doc, !.synced = TRUE]
                /\ UNCHANGED ret
           ELSE /\ call' = [call EXCEPT !.handled = @ + 1]
                /\ UNCHANGED ret
    /\ UNCHANGED server_vars

\* the frames of the client the server has received so far
Delivered == (1 + NumOps) - (quotaStep1 + quotaRecv)

InFlight == Delivered < Len(ret.out)

\* the server receives the next frame the client sent
DeliverSyncStep1 ==
    /\ call.fn = "provider" /\ InFlight
    /\ ReceiveSyncStep1(ws, ret.out[Delivered + 1])

DeliverSyncStep2 ==
    /\ call.fn = "provider" /\ InFlight
    /\ ReceiveSyncStep2(ws, ret.out[Delivered + 1])

InitClient ==
    /\ g_peers = <<>>
    /\ peer = [w \in Wsi |-> NoPeer]
    /\ g_document = {}
    /\ writable = [w \in Wsi |-> FALSE]
    /\ sent = [w \in Wsi |-> <<>>]
    /\ written = [w \in Wsi |-> <<>>]
    /\ stderr = {}
    /\ applied = <<>>
    /\ nConnects = 0
    /\ quotaStep1 = 1
    /\ quotaRecv = NumOps
    /\ call = NewProvider
    /\ ret = [fn |-> "wire", out |-> <<>>]

NextClient ==
    \/ Established(ws)
    \/ handleOpen
    \/ \E op \in Ops : LocalEdit(op)
    \/ DeliverSyncStep1
    \/ DeliverSyncStep2
    \/ \E ok \in BOOLEAN : Writeable(ws, ok)
    \/ handleMessage

\* the browser and lws_service deliver every pending event
FairnessClient ==
    /\ WF_vars(Established(ws))
    /\ WF_vars(handleOpen)
    /\ WF_vars(DeliverSyncStep1)
    /\ WF_vars(DeliverSyncStep2)
    /\ WF_vars(\E ok \in BOOLEAN : Writeable(ws, ok))
    /\ WF_vars(handleMessage)

SpecClient == InitClient /\ [][NextClient]_vars /\ FairnessClient

\* ------------------------------------------------ the locks of a callback
\* What one callback does with g_peers_lock and the peers' locks, as the
\* list of its lock operations and of its accesses to Peer fields, in
\* program order, for the registry the callback starts from.
G == 0

Set(l) == [op |-> "set", n |-> l, field |-> "lock"]
Unset(l) == [op |-> "unset", n |-> l, field |-> "lock"]
Acc(p, f) == [op |-> "access", n |-> p, field |-> f]
Fill(p, f) == [op |-> "init", n |-> p, field |-> f]
LwsWrite(p) == [op |-> "lws_write", n |-> p, field |-> "wsi"]

RECURSIVE Flat(_)
Flat(ss) == IF ss = <<>> THEN <<>> ELSE Head(ss) \o Flat(Tail(ss))

\* the loop "for (p = g_peers; p; p = p->next)"; body[p] is what one
\* iteration does for peer p
EachPeer(body) == Flat([i \in 1..Len(g_peers) |-> body[g_peers[i]]])

peers_count_locks == <<Set(G), Unset(G)>>

\* mutant: the found path returns without releasing g_peers_lock
peers_find_locks_held == <<Set(G)>>

peers_find_locks == <<Set(G), Unset(G)>>

peers_add_locks(w) ==
    <<Fill(w, "synced"), Fill(w, "pending_queue"), Fill(w, "client_id"),
      Fill(w, "awareness_json"), Set(G), Unset(G)>>

peer_queue_message_locks(p) ==
    <<Set(p), Acc(p, "pending_queue"), Unset(p)>>

\* mutant: the queue head is taken without the peer's lock
peer_dequeue_message_locks_nolock(p) == <<Acc(p, "pending_queue")>>

peer_dequeue_message_locks(p) ==
    <<Set(p), Acc(p, "pending_queue"), Unset(p)>>

\* mutant: g_peers_lock is released before the peer's lock
peers_remove_locks_swapped(w) ==
    IF Listed(w)
    THEN <<Set(G), Set(w), Acc(w, "pending_queue"), Unset(G), Unset(w),
           Acc(w, "awareness_json")>>
    ELSE <<Set(G), Unset(G)>>

peers_remove_locks(w) ==
    <<Set(G)>>
    \o (IF Listed(w)
        THEN <<Set(w), Acc(w, "pending_queue"), Unset(w),
               Acc(w, "awareness_json")>>
        ELSE <<>>)
    \o <<Unset(G)>>

peers_destroy_locks ==
    LET Free == [p \in Wsi |->
                    <<Set(p), Acc(p, "pending_queue"), Unset(p),
                      Acc(p, "awareness_json")>>]
    IN  <<Set(G)>> \o EachPeer(Free) \o <<Unset(G)>>

server_broadcast_locks(data, exclude) ==
    LET Body == [p \in Wsi |->
                    IF p = exclude THEN <<>>
                    ELSE <<Acc(p, "synced")>>
                         \o (IF peer[p].synced
                             THEN peer_queue_message_locks(p) ELSE <<>>)]
    IN  IF Len(data) = 0 THEN <<>>
        ELSE <<Set(G)>> \o EachPeer(Body) \o <<Unset(G)>>

\* LWS_CALLBACK_ESTABLISHED for a new handle w; the loop skips w itself,
\* which g_peers, the list before the callback, does not hold
Established_locks(w) ==
    LET Body == [p \in Wsi |->
           <<Acc(p, "client_id")>>
           \o (IF peer[p].client_id # U32(0)
               THEN <<Acc(p, "awareness_json")>>
                    \o (IF peer[p].awareness_json # <<>>
                        THEN peer_queue_message_locks(w) ELSE <<>>)
               ELSE <<>>)]
    IN  peers_count_locks \o peers_add_locks(w) \o <<Acc(w, "synced")>>
        \o <<Set(G)>> \o EachPeer(Body) \o <<Unset(G)>>

\* LWS_CALLBACK_CLOSED
Closed_locks(w) ==
    LET Body == [p \in Wsi |->
                    IF p = w THEN <<>> ELSE peer_queue_message_locks(p)]
    IN  peers_count_locks \o peers_find_locks \o <<Acc(w, "client_id")>>
        \o (IF peer[w].client_id # U32(0)
            THEN <<Set(G)>> \o EachPeer(Body) \o <<Unset(G)>>
            ELSE <<>>)
        \o peers_remove_locks(w)

\* LWS_CALLBACK_RECEIVE, the three kinds
ReceiveSyncStep1_locks(w) ==
    peers_find_locks \o peer_queue_message_locks(w) \o <<Acc(w, "synced")>>

ReceiveSyncStep2_locks(w, data) ==
    LET d == decode_sync_step2(data)
    IN  IF d.ok /\ Len(d.payload) > 0 /\ apply_update(g_document, d.payload).ok
        THEN server_broadcast_locks(data, w)
        ELSE <<>>

ReceiveAwareness_locks(w, data) ==
    LET Body == [p \in Wsi |->
                    IF p = w THEN <<>> ELSE peer_queue_message_locks(p)]
    IN  IF decode_awareness(data).ok
        THEN peers_find_locks
             \o <<Acc(w, "client_id"), Acc(w, "awareness_json")>>
             \o <<Set(G)>> \o EachPeer(Body) \o <<Unset(G)>>
        ELSE <<>>

\* mutant: the frame is written with g_peers_lock held
Writeable_locks_held(w) ==
    <<Set(G)>> \o peer_dequeue_message_locks(w)
    \o (IF peer[w].pending_queue # <<>> THEN <<LwsWrite(w)>> ELSE <<>>)
    \o <<Unset(G)>>

\* LWS_CALLBACK_SERVER_WRITEABLE
Writeable_locks(w) ==
    peers_find_locks \o peer_dequeue_message_locks(w)
    \o (IF peer[w].pending_queue # <<>>
        THEN <<LwsWrite(w)>> \o peers_find_locks
        ELSE <<>>)

\* the callbacks and the shutdown path of server_run
Handlers ==
    {"Established", "Closed", "ReceiveSyncStep1", "ReceiveSyncStep2",
     "ReceiveAwareness", "Writeable", "Shutdown"}

\* the operations of the callback in progress
Events ==
    CASE call.fn = "Established" -> Established_locks(call.w)
      [] call.fn = "Closed" -> Closed_locks(call.w)
      [] call.fn = "ReceiveSyncStep1" -> ReceiveSyncStep1_locks(call.w)
      [] call.fn = "ReceiveSyncStep2" ->
            ReceiveSyncStep2_locks(call.w, call.data)
      [] call.fn = "ReceiveAwareness" ->
            ReceiveAwareness_locks(call.w, call.data)
      [] call.fn = "Writeable" -> Writeable_locks(call.w)
      [] call.fn = "Shutdown" -> peers_destroy_locks
      [] OTHER -> <<>>

Running == call.fn \in Handlers

\* the next operation of the callback in progress
AtOp == Running /\ call.pc <= Len(Events)

Op == Events[call.pc]

Holds(l) == \E i \in 1..Len(ret.held) : ret.held[i] = l

Advance(held) ==
    /\ call' = [call EXCEPT !.pc = @ + 1]
    /\ ret' = [ret EXCEPT !.held = held]
    /\ UNCHANGED server_vars

\* omp_set_lock: waits while the lock is held
omp_set_lock ==
    /\ AtOp /\ Op.op = "set"
    /\ ~Holds(Op.n)
    /\ Advance(Append(ret.held, Op.n))

\* omp_unset_lock
omp_unset_lock ==
    /\ AtOp /\ Op.op = "unset"
    /\ Advance(SelectSeq(ret.held, LAMBDA l : l # Op.n))

\* a read or write of a Peer field
FieldAccess ==
    /\ AtOp /\ Op.op \in {"access", "init"}
    /\ Advance(ret.held)

\* lws_write of the frame taken from the queue
TransportWrite ==
    /\ AtOp /\ Op.op = "lws_write"
    /\ Advance(ret.held)

\* the registries a callback can start from: handles are linked at the
\* head in the order they were accepted
RegLists ==
    {l \in UNION {[1..k -> Wsi] : k \in 0..MaxPeers} :
        \A i \in 1..Len(l), j \in 1..Len(l) : i < j => l[i] > l[j]}

\* a listed peer: handshake done or not, presence published or not, and a
\* handshake reply still queued or already written
PeerStates ==
    {ps \in [synced : BOOLEAN, client_id : {U32(0), U32(5)},
             awareness_json : {<<>>, <<7>>},
             pending_queue :
                {<<>>, <<encode_sync_step2(get_state_as_update({}))>>}] :
        /\ ps.pending_queue # <<>> => ps.synced
        /\ ps.client_id = U32(0) <=> ps.awareness_json = <<>>}

LockCalls ==
    {[fn |-> h, w |-> w, data |-> <<>>, pc |-> 1] :
        h \in {"Established", "Closed", "ReceiveSyncStep1", "Writeable"},
        w \in Wsi}
    \cup {[fn |-> "ReceiveSyncStep2", w |-> w, data |-> d, pc |-> 1] :
             w \in Wsi, d \in {F_UPD1, F_UPD_BAD}}
    \cup {[fn |-> "ReceiveAwareness", w |-> w, data |-> d, pc |-> 1] :
             w \in Wsi, d \in {F_AW5, F_AW_SHORT}}
    \cup {[fn |-> "Shutdown", w |-> 1, data |-> <<>>, pc |-> 1]}

InitLocks ==
    /\ g_peers \in RegLists
    /\ peer \in [Wsi -> PeerStates \cup {NoPeer}]
    /\ \A w \in Wsi :
          IF Listed(w) THEN peer[w] \in PeerStates ELSE peer[w] = NoPeer
    /\ call \in LockCalls
    /\ call.fn \notin {"Established", "Shutdown"} => Listed(call.w)
    /\ call.fn = "Established" =>
          \A x \in Wsi : Listed(x) => x < call.w
    /\ ret = [fn |-> "locks", held |-> <<>>]
    /\ g_document = {}
    /\ writable = [w \in Wsi |-> Listed(w)]
    /\ sent = [w \in Wsi |-> <<>>]
    /\ written = [w \in Wsi |-> <<>>]
    /\ stderr = {}
    /\ applied = <<>>
    /\ nConnects = IF g_peers = <<>> THEN 0 ELSE g_peers[1]
    /\ quotaStep1 = 0
    /\ quotaRecv = 0

NextLocks ==
    \/ omp_set_lock
    \/ omp_unset_lock
    \/ FieldAccess
    \/ TransportWrite

SpecLocks == InitLocks /\ [][NextLocks]_vars

\* Document::apply_update on a replica
Call_apply_update ==
    /\ call.fn = "apply_update" /\ ret = NoCall
    /\ LET r == apply_update(call.doc, call.arg)
       IN  ret' = [fn |-> "apply_update", ok |-> r.ok, doc |-> r.doc,
                   calls |-> r.calls]
    /\ UNCHANGED <<server_vars, call>>

InitCodec == \E c \in CodecCalls : InitWith(0, 0, c)

NextCodec ==
    \/ Call_varuint
    \/ Call_decode_varuint
    \/ Call_sync_frame
    \/ Call_awareness
    \/ Call_apply_update

SpecCodec == InitCodec /\ [][NextCodec]_vars

TypeOK ==
    /\ g_document \subseteq Ops
    /\ \A w \in Wsi : ~Listed(w) => peer[w] = NoPeer /\ ~writable[w]

\* ================================================================ claims
Frames(log) == [i \in 1..Len(log) |-> log[i].data]

HasEntry(p, cause) == \E i \in 1..Len(sent[p]) : sent[p][i].cause = cause

\* the SYNC_STEP2 frame decodes to a non-empty update the replica accepts
Applied(data) ==
    LET d == decode_sync_step2(data)
    IN  d.ok /\ Len(d.payload) > 0 /\ apply_update(g_document, d.payload).ok

\* C1: a SYNC_STEP2 received from peer x and applied is appended exactly
\* once to the queue of every other listed peer that is synced at that moment
C1_BroadcastReachesEverySyncedPeer ==
    [][\A x \in Wsi, data \in InFrames :
          (ReceiveSyncStep2(x, data) /\ Applied(data)) =>
             \A p \in Wsi \ {x} :
                (Listed(p) /\ peer[p].synced) =>
                   /\ peer'[p].pending_queue
                         = Append(peer[p].pending_queue, data)
                   /\ sent'[p] = Append(sent[p], Msg(data, "update", x))]_vars

\* two peers hold the same update of a third peer
C1_Witness ==
    \E x \in Wsi, p \in Wsi, q \in Wsi :
       /\ p # q /\ p # x /\ q # x
       /\ \E i \in 1..Len(sent[p]), j \in 1..Len(sent[q]) :
             /\ sent[p][i] = sent[q][j]
             /\ sent[p][i].cause = "update"
             /\ sent[p][i].from = x

\* C2: while a SYNC_STEP2 received from peer x is handled, nothing is
\* enqueued on x itself
C2_NoSelfEcho ==
    [][\A x \in Wsi, data \in InFrames :
          ReceiveSyncStep2(x, data) =>
             /\ peer'[x].pending_queue = peer[x].pending_queue
             /\ sent'[x] = sent[x]]_vars

\* a synced peer's update has been broadcast to another peer
C2_Witness ==
    \E x \in Wsi, p \in Wsi :
       /\ p # x /\ Listed(x) /\ peer[x].synced
       /\ \E i \in 1..Len(sent[p]) :
             sent[p][i].cause = "update" /\ sent[p][i].from = x

\* C3: a listed peer whose synced flag is false has never been enqueued a
\* rebroadcast SYNC_STEP2
C3_HandshakeGating ==
    \A p \in Wsi :
       (Listed(p) /\ ~peer[p].synced) => ~HasEntry(p, "update")

\* an update went out to a synced peer while a peer accepted before it, not
\* yet synced, got nothing
C3_Witness ==
    \E p \in Wsi, q \in Wsi :
       /\ p # q /\ Listed(p) /\ Listed(q)
       /\ ~peer[p].synced /\ sent[p] = <<>>
       /\ peer[q].synced /\ HasEntry(q, "update")
       /\ nConnects = Len(g_peers)
       /\ \E i \in 1..Len(g_peers), j \in 1..Len(g_peers) :
             i < j /\ g_peers[i] = q /\ g_peers[j] = p

\* C4: a SYNC_STEP2 received from a peer whose synced flag is false is held
\* or dropped: the replica is unchanged, nothing is enqueued anywhere and
\* the sender stays unsynced
C4_UnsyncedUpdateHeldOrDropped ==
    [][\A x \in Wsi, data \in InFrames :
          (ReceiveSyncStep2(x, data) /\ ~peer[x].synced) =>
             /\ g_document' = g_document
             /\ sent' = sent
             /\ ~peer'[x].synced]_vars

\* C5: the frames enqueued on a peer, in enqueue order, are the frames
\* already handed to the transport followed by the frames still queued
C5_FifoPerPeer ==
    \A p \in Wsi :
       Frames(sent[p]) = written[p] \o peer[p].pending_queue

\* two frames of different origin were written to one peer
C5_Witness ==
    \E p \in Wsi :
       /\ Len(written[p]) >= 2
       /\ sent[p][1].cause # sent[p][2].cause
       /\ written[p][1] # written[p][2]

\* C6: a well-formed SYNC_STEP1 from an unsynced peer enqueues exactly one
\* SYNC_STEP2 frame on that peer, sets its synced flag, and changes no other
\* peer's queue or flag
C6_HandshakeReply ==
    [][\A x \in Wsi, data \in InFrames :
          (ReceiveSyncStep1(x, data) /\ ~peer[x].synced
             /\ decode_sync_step1(data).ok) =>
             /\ Len(peer'[x].pending_queue) = Len(peer[x].pending_queue) + 1
             /\ SubSeq(peer'[x].pending_queue, 1, Len(peer[x].pending_queue))
                   = peer[x].pending_queue
             /\ decode_sync_step2(peer'[x].pending_queue[
                                     Len(peer'[x].pending_queue)]).ok
             /\ peer'[x].synced
             /\ \A p \in Wsi \ {x} : peer'[p] = peer[p] /\ sent'[p] = sent[p]
       ]_vars

\* a peer completed its handshake while another peer was connected
C6_Witness ==
    \E x \in Wsi, p \in Wsi :
       /\ p # x /\ Listed(p) /\ Listed(x)
       /\ peer[x].synced
       /\ Len(sent[x]) = 1 /\ sent[x][1].cause = "reply"

\* C7: the reply to a SYNC_STEP1 carries the diff against the state vector
\* received in that SYNC_STEP1
C7_ReplyIsDiff ==
    [][\A x \in Wsi, data \in InFrames :
          (ReceiveSyncStep1(x, data) /\ decode_sync_step1(data).ok) =>
             peer'[x].pending_queue[Len(peer'[x].pending_queue)]
                = encode_sync_step2(
                     get_state_diff(g_document,
                                    decode_sync_step1(data).payload))]_vars

IsStep2(data) == Len(data) > 0 /\ data[1] = MSG_SYNC_STEP2

C9_SnapshotBeforeDelta ==
    \A p \in Wsi :
       \A i \in 1..Len(sent[p]) :
          sent[p][i].cause = "update" =>
             \E j \in 1..(i - 1) : sent[p][j].cause = "reply"

\* a peer holds its handshake reply followed by another peer's update
C9_Witness ==
    \E p \in Wsi :
       \E i \in 1..Len(sent[p]) :
          /\ sent[p][i].cause = "update"
          /\ sent[p][1].cause = "reply"

\* C10: every frame a SYNC_STEP2 receive enqueues is the received frame,
\* byte for byte
C10_VerbatimRebroadcast ==
    [][\A x \in Wsi, data \in InFrames :
          ReceiveSyncStep2(x, data) =>
             \A p \in Wsi :
                sent'[p] # sent[p] =>
                   /\ Len(peer'[p].pending_queue)
                         = Len(peer[p].pending_queue) + 1
                   /\ peer'[p].pending_queue[Len(peer'[p].pending_queue)]
                         = data]_vars

\* a rebroadcast frame that differs from the re-encoding of its payload
C10_Witness ==
    \E p \in Wsi :
       \E i \in 1..Len(sent[p]) :
          /\ sent[p][i].cause = "update"
          /\ sent[p][i].data
                # encode_sync_step2(decode_sync_step2(sent[p][i].data).payload)
          /\ \E k \in 1..Len(peer[p].pending_queue) :
                peer[p].pending_queue[k] = sent[p][i].data

\* the frame is an AWARENESS frame naming client cid with zero-length JSON
IsRemoveOf(data, cid) ==
    LET a == decode_awareness(data)
    IN  a.ok /\ a.client_id = cid /\ a.state_json = <<>>

IsPresence(m) == m.cause \in {"awareness", "remove"}

\* C12, as claimed: no relayed AWARENESS frame and no awareness-remove frame
\* is enqueued on a listed peer whose synced flag is false
C12_PresenceOnlyToSynced ==
    [][\A p \in Wsi :
          (Listed(p) /\ ~peer[p].synced) =>
             \A i \in (Len(sent[p]) + 1)..Len(sent'[p]) :
                ~IsPresence(sent'[p][i])]_vars

\* C12, amended: a relayed AWARENESS frame and an awareness-remove frame are
\* enqueued once on every other listed peer, whatever its synced flag
C12_PresenceToEveryPeer ==
    [][/\ \A x \in Wsi, data \in InFrames :
             (ReceiveAwareness(x, data) /\ decode_awareness(data).ok) =>
                \A p \in Wsi \ {x} :
                   Listed(p) =>
                      sent'[p] = Append(sent[p], Msg(data, "awareness", x))
       /\ \A x \in Wsi :
             (Closed(x) /\ peer[x].client_id # U32(0)) =>
                \A p \in Wsi \ {x} :
                   Listed(p) =>
                      /\ Len(sent'[p]) = Len(sent[p]) + 1
                      /\ sent'[p][Len(sent'[p])].cause = "remove"
                      /\ sent'[p][Len(sent'[p])].from = x]_vars

\* a peer that has not completed its handshake holds both a relayed
\* AWARENESS frame and a remove frame
C12_Witness ==
    \E p \in Wsi :
       /\ Listed(p) /\ ~peer[p].synced
       /\ HasEntry(p, "awareness") /\ HasEntry(p, "remove")

\* C13: a well-formed AWARENESS frame received from peer x, synced or not,
\* is appended unchanged exactly once to the queue of every other listed,
\* synced peer, and nothing is enqueued on x
C13_AwarenessRelay ==
    [][\A x \in Wsi, data \in InFrames :
          (ReceiveAwareness(x, data) /\ decode_awareness(data).ok) =>
             /\ \A p \in Wsi \ {x} :
                   (Listed(p) /\ peer[p].synced) =>
                      /\ peer'[p].pending_queue
                            = Append(peer[p].pending_queue, data)
                      /\ Len(sent'[p]) = Len(sent[p]) + 1
             /\ peer'[x].pending_queue = peer[x].pending_queue
             /\ sent'[x] = sent[x]]_vars

\* a synced peer holds the frame of a peer that has not completed its
\* handshake
C13_Witness ==
    \E x \in Wsi, p \in Wsi :
       /\ x # p /\ Listed(x) /\ ~peer[x].synced
       /\ Listed(p) /\ peer[p].synced
       /\ peer[x].client_id # U32(0)
       /\ \E i \in 1..Len(sent[p]) :
             /\ sent[p][i].cause = "awareness" /\ sent[p][i].from = x
             /\ sent[p][i].data \in {F_AW5, F_AW5_EMPTY}
             /\ \E j \in 1..(i - 1) : sent[p][j].cause = "reply"

\* the existing peers whose client id and cached JSON are both known
Known == {p \in Wsi : /\ Listed(p) /\ peer[p].client_id # U32(0)
                      /\ peer[p].awareness_json # <<>>}

Receive(x, data) ==
    \/ ReceiveSyncStep1(x, data)
    \/ ReceiveSyncStep2(x, data)
    \/ ReceiveAwareness(x, data)
    \/ ReceiveUnknown(x, data)

\* the frame has an unknown kind or does not decode as a frame of its kind
DecodeFails(data) ==
    LET t == parse_message_type(data)
    IN  \/ t = MSG_INVALID
        \/ t = MSG_SYNC_STEP1 /\ ~decode_sync_step1(data).ok
        \/ t = MSG_SYNC_STEP2 /\ ~decode_sync_step2(data).ok
        \/ t = MSG_AWARENESS /\ ~decode_awareness(data).ok

\* C15: an inbound frame that fails to decode, SYNC_STEP1 included, has no
\* effect: nothing is enqueued, the replica and every peer's synced flag,
\* client id and awareness cache are unchanged
C15_UndecodableDiscarded ==
    [][\A x \in Wsi, data \in InFrames :
          (Receive(x, data) /\ DecodeFails(data)) =>
             /\ sent' = sent
             /\ peer' = peer
             /\ g_document' = g_document]_vars

\* the server rejects the frame: unknown kind, decode error or apply failure
Rejected(data) ==
    LET t == parse_message_type(data)
        d == decode_sync_step2(data)
    IN  \/ t = MSG_INVALID
        \/ /\ t = MSG_SYNC_STEP2
           /\ \/ ~d.ok
              \/ Len(d.payload) = 0
              \/ ~apply_update(g_document, d.payload).ok
        \/ t = MSG_AWARENESS /\ ~decode_awareness(data).ok

C17_RejectedUpdateNotRelayed ==
    [][\A x \in Wsi, data \in InFrames :
          (/\ ReceiveSyncStep2(x, data)
           /\ decode_sync_step2(data).ok
           /\ Len(decode_sync_step2(data).payload) > 0
           /\ ~apply_update(g_document,
                            decode_sync_step2(data).payload).ok) =>
             /\ sent' = sent
             /\ \A p \in Wsi :
                   peer'[p].pending_queue = peer[p].pending_queue]_vars

\* an update was rejected while two peers were connected and synced, and
\* neither holds a relayed update
C17_Witness ==
    /\ ERR_APPLY \in stderr
    /\ nConnects = Len(g_peers)
    /\ \E x \in Wsi, p \in Wsi :
          /\ x # p /\ Listed(x) /\ Listed(p)
          /\ peer[x].synced /\ peer[p].synced
    /\ \A p \in Wsi : ~HasEntry(p, "update")

\* C18: when lws_write fails for a dequeued frame, the frame is dropped and
\* the peer is closed
C18_WriteFailureClosesPeer ==
    [][\A w \in Wsi :
          (Writeable(w, FALSE) /\ peer[w].pending_queue # <<>>) =>
             /\ peer'[w].pending_queue # peer[w].pending_queue
             /\ \A i \in 1..Len(g_peers') : g_peers'[i] # w]_vars

\* C19: a writable event for a peer with pending frames hands exactly the
\* oldest one to lws_write and removes it from the queue, touches no other
\* peer, and requests another writable event if frames remain; with nothing
\* pending it writes nothing
C19_OneFramePerWritable ==
    [][\A w \in Wsi, ok \in BOOLEAN :
          /\ (Writeable(w, ok) /\ peer[w].pending_queue # <<>>) =>
                /\ written'[w]
                      = Append(written[w], Head(peer[w].pending_queue))
                /\ peer'[w].pending_queue = Tail(peer[w].pending_queue)
                /\ peer'[w].pending_queue # <<>> => writable'[w]
                /\ \A p \in Wsi \ {w} :
                      /\ written'[p] = written[p]
                      /\ peer'[p].pending_queue = peer[p].pending_queue
          /\ (Writeable(w, ok) /\ peer[w].pending_queue = <<>>) =>
                written' = written /\ peer' = peer]_vars

\* one frame of a peer has been written while a different one is still
\* queued and a further writable event is requested
C19_Witness ==
    \E w \in Wsi :
       /\ Len(written[w]) = 1
       /\ peer[w].pending_queue # <<>>
       /\ Head(peer[w].pending_queue) # written[w][1]
       /\ writable[w]

\* C20: no callback reads or writes the record, the queue or the writable
\* request of a handle that is not in the registry, and the record of a
\* removed peer is left cleared
C20_NoUseAfterRemove ==
    [][/\ \A p \in Wsi :
             (~Listed(p) /\ \A i \in 1..Len(g_peers') : g_peers'[i] # p) =>
                /\ peer'[p] = peer[p]
                /\ sent'[p] = sent[p]
                /\ written'[p] = written[p]
                /\ writable'[p] = writable[p]
       /\ \A w \in Wsi :
             Closed(w) => peer'[w] = NoPeer /\ ~writable'[w]]_vars

\* a peer has left, and a remaining peer holds both the remove frame of the
\* peer that left and a frame already written
C20_Witness ==
    \E w \in Wsi, p \in Wsi :
       /\ w <= nConnects /\ ~Listed(w)
       /\ Listed(p) /\ written[p] # <<>>
       /\ \E i \in 1..Len(sent[p]) :
             sent[p][i].cause = "remove" /\ sent[p][i].from = w

\* C22: a SYNC_STEP1 from a peer whose synced flag is already true appends
\* one SYNC_STEP2 frame to that peer's queue and changes nothing else: the
\* flag stays true, the replica, the registry and every other peer are as
\* before
C22_RepeatedStep1 ==
    [][\A x \in Wsi, data \in InFrames :
          (ReceiveSyncStep1(x, data) /\ peer[x].synced) =>
             /\ \E msg \in {peer'[x].pending_queue[
                               Len(peer'[x].pending_queue)]} :
                   /\ decode_sync_step2(msg).ok
                   /\ peer'[x] = [peer[x] EXCEPT
                                     !.pending_queue = Append(@, msg)]
             /\ peer'[x].synced
             /\ g_document' = g_document
             /\ g_peers' = g_peers
             /\ \A p \in Wsi \ {x} :
                   peer'[p] = peer[p] /\ sent'[p] = sent[p]]_vars

\* a peer holds two handshake replies while another peer is connected
C22_Witness ==
    \E x \in Wsi, p \in Wsi :
       /\ x # p /\ Listed(x) /\ Listed(p) /\ peer[x].synced
       /\ \E i \in 1..Len(sent[x]), j \in 1..Len(sent[x]) :
             i < j /\ sent[x][i].cause = "reply" /\ sent[x][j].cause = "reply"

\* C23: once a peer's client id is known, a later AWARENESS frame of that
\* peer does not change it
C23_ClientIdLearnedOnce ==
    [][\A x \in Wsi, data \in PresenceFrames :
          (ReceiveAwareness(x, data) /\ peer[x].client_id # U32(0)) =>
             peer'[x].client_id = peer[x].client_id]_vars

\* C24: after an AWARENESS frame of a peer that decodes, the peer's cached
\* JSON is the JSON of that frame, empty for a zero-length JSON; a frame
\* that does not decode leaves the cache as it was
C24_LatestAwarenessCached ==
    [][\A x \in Wsi, data \in PresenceFrames :
          ReceiveAwareness(x, data) =>
             LET a == decode_awareness(data)
             IN  peer'[x].awareness_json
                    = IF a.ok THEN a.state_json ELSE peer[x].awareness_json
       ]_vars

\* a peer has sent two frames with different JSON, the second one with
\* zero-length JSON, and its cache is empty
C24_Witness ==
    \E x \in Wsi, p \in Wsi :
       /\ x # p /\ Listed(x) /\ Listed(p)
       /\ peer[x].awareness_json = <<>>
       /\ \E i \in 1..Len(sent[p]), j \in 1..Len(sent[p]) :
             /\ i < j
             /\ sent[p][i].from = x /\ sent[p][i].cause = "awareness"
             /\ sent[p][j].from = x /\ sent[p][j].cause = "awareness"
             /\ decode_awareness(sent[p][i].data).state_json # <<>>
             /\ decode_awareness(sent[p][j].data).state_json = <<>>

\* C27: decoding the varuint encoding of n returns n and a consumed-byte
\* count equal to the length of the encoding
C27_VaruintRoundTrip ==
    ret.fn = "varuint" =>
       ret.dec = [n |-> Len(ret.enc), value |-> call.arg]

\* a value above 2^31 went through its five-byte encoding
C27_Witness ==
    /\ ret.fn = "varuint"
    /\ call.arg.hi >= 32768
    /\ Len(ret.enc) = 5
    /\ ret.dec.n = 5 /\ ret.dec.value = call.arg

\* the first varuint of the bytes has continuation bits on its first five
\* bytes, or a fifth byte with bits above bit 31
Overlong(bytes) ==
    /\ Len(bytes) >= 5
    /\ \A i \in 1..4 : bytes[i] >= 128
    /\ bytes[5] >= 128 \/ bytes[5] >= 16

\* C28: decode_varuint returns the error result for every input whose
\* value does not fit in 32 bits or whose continuation bits run past the
\* fifth byte
C28_OverlongRejected ==
    (ret.fn = "decode_varuint" /\ Overlong(call.arg)) => ret.n = 0

\* C29: decoding an encoded frame yields the same kind and payload, the
\* empty payload included; decoding an encoded AWARENESS frame yields the
\* same client id and JSON, empty for a removal
C29_FrameRoundTrip ==
    /\ ret.fn = "frame" =>
          /\ ret.kind = call.kind
          /\ ret.dec = [ok |-> TRUE, payload |-> call.arg]
    /\ ret.fn = "awareness" =>
          /\ ret.kind = MSG_AWARENESS
          /\ ret.dec = [ok |-> TRUE, client_id |-> call.id,
                        state_json |-> call.json]

\* a SYNC_STEP2 frame with the empty payload went through the codec
C29_Witness ==
    /\ ret.fn = "frame"
    /\ call.kind = MSG_SYNC_STEP2 /\ call.arg = <<>>
    /\ ret.enc = <<MSG_SYNC_STEP2, 0>>
    /\ ret.dec.ok

\* ceil(bits_required(n) / 7), 1 for n = 0
MinBytes(v) ==
    IF v.hi = 0 /\ v.lo < 128 THEN 1
    ELSE IF v.hi = 0 /\ v.lo < 16384 THEN 2
    ELSE IF v.hi < 32 THEN 3
    ELSE IF v.hi < 4096 THEN 4
    ELSE 5

\* C30: encode_varuint emits the minimal number of bytes, and the listed
\* values have the listed encodings
C30_MinimalEncoding ==
    /\ ret.fn = "varuint" => Len(ret.enc) = MinBytes(call.arg)
    /\ encode_varuint(U32(0)) = <<0>>
    /\ encode_varuint(U32(127)) = <<127>>
    /\ encode_varuint(U32(128)) = <<128, 1>>
    /\ encode_varuint(U32(300)) = <<172, 2>>
    /\ encode_varuint(U32(16384)) = <<128, 128, 1>>

\* 16384 was encoded in three bytes
C30_Witness ==
    /\ ret.fn = "varuint"
    /\ call.arg = U32(16384)
    /\ ret.enc = <<128, 128, 1>>

\* C25: at the step that makes a handle visible in the list, its peer is
\* not synced, has an empty queue and no client id
C25_AddedPeerIsFresh ==
    [][\A w \in Wsi :
          (~Listed(w) /\ Listed(w)') =>
             /\ ~peer'[w].synced
             /\ peer'[w].pending_queue = <<>>
             /\ peer'[w].client_id = U32(0)]_vars

\* a handle was just linked in front of a peer that is synced and has
\* frames queued
C25_Witness ==
    /\ ret.fn = "peers_add"
    /\ Len(g_peers) >= 2
    /\ g_peers[1] = ret.arg
    /\ ~peer[g_peers[1]].synced
    /\ peer[g_peers[2]].synced
    /\ peer[g_peers[2]].pending_queue # <<>>

\* C26: peers_remove of a listed handle unlinks it and frees its queue and
\* awareness payload, leaving every other peer alone; peers_remove of a
\* handle that is not listed changes nothing
C26_RemoveIdempotent ==
    [][\A w \in Wsi :
          Call_peers_remove(w) =>
             IF Listed(w)
             THEN /\ ~Listed(w)'
                  /\ peer'[w].pending_queue = <<>>
                  /\ peer'[w].awareness_json = <<>>
                  /\ \A p \in Wsi \ {w} :
                        peer'[p] = peer[p] /\ (Listed(p)' <=> Listed(p))
                  /\ peers_remove(g_peers', w) = g_peers'
             ELSE g_peers' = g_peers /\ peer' = peer]_vars

\* the last call removed, a second time, a handle whose peer had a queue
\* of frames, while another peer with queued frames stays listed
C26_Witness ==
    /\ ret.fn = "peers_remove"
    /\ ret.again
    /\ ~Listed(ret.arg)
    /\ \E p \in Wsi : Listed(p) /\ peer[p].pending_queue # <<>>

\* the update payloads in the history
AppliedSet == {applied[i].payload : i \in 1..Len(applied)}

\* a replica that applies the updates of S once each, smallest first
RECURSIVE RefReplica(_)
RefReplica(S) ==
    IF S = {} THEN {}
    ELSE LET u == CHOOSE x \in S : \A y \in S : x[1] >= y[1]
         IN  apply_update(RefReplica(S \ {u}), u).doc

C31_V1ThenV2Once ==
    (ret.fn = "apply_update" /\ Len(call.arg) > 0) =>
       LET v1 == ytransaction_apply(call.arg)
           v2 == ytransaction_apply_v2(call.arg)
       IN  /\ ret.calls[1] = V1
           /\ v1.err = 0 => ret.calls = <<V1>> /\ ret.ok
           /\ v1.err # 0 => /\ ret.calls = <<V1, V2>>
                           /\ ret.ok <=> v2.err = 0

\* an update only the V2 format reads was applied to a replica that holds
\* another operation
C31_Witness ==
    /\ ret.fn = "apply_update"
    /\ ytransaction_apply(call.arg).err # 0
    /\ ret.calls = <<V1, V2>>
    /\ ret.ok
    /\ call.doc # {} /\ ret.doc # call.doc

\* C37: a listed peer with a non-empty queue has a writable callback
\* pending, and every frame enqueued on a peer is handed to lws_write
\* unless the peer is closed first
C37_EnqueuedIsWritten ==
    /\ [](\A w \in Wsi :
             (Listed(w) /\ peer[w].pending_queue # <<>>) => writable[w])
    /\ \A w \in Wsi, k \in 1..MaxFrames :
          (Listed(w) /\ Len(sent[w]) >= k)
             ~> (~Listed(w) \/ Len(written[w]) >= k)

\* two frames were enqueued on a peer and both were written
C37_Witness ==
    \E w \in Wsi :
       /\ Listed(w)
       /\ Len(sent[w]) >= 2
       /\ Frames(sent[w]) = written[w]
       /\ peer[w].pending_queue = <<>>
       /\ ~writable[w]

\* [kind][length][payload] with nothing after the payload
WellFormed(data) ==
    /\ Len(data) >= 2
    /\ data[1] \in {MSG_SYNC_STEP2, MSG_AWARENESS}
    /\ LET v == decode_varuint(Tail(data))
       IN  /\ v.n > 0
           /\ v.value = U32(Len(data) - 1 - v.n)

\* C38: every frame enqueued on a peer is a SYNC_STEP2 or AWARENESS frame
\* whose payload has exactly the declared length
C38_EnqueuedFramesWellFormed ==
    \A w \in Wsi : \A i \in 1..Len(sent[w]) : WellFormed(sent[w][i].data)

\* peer p was sent an AWARENESS frame that peer x published
HeardFrom(p, x) ==
    \E i \in 1..Len(sent[p]) :
       sent[p][i].from = x /\ sent[p][i].cause = "awareness"

\* C39: a peer that has published its presence, client id 0 included, is
\* presented to a newcomer if it has a cached JSON, and its disconnect
\* enqueues an awareness-remove on the peers that heard from it
C39_ClientIdZeroIsKnown ==
    [][\A x \in Wsi, p \in Wsi :
          /\ (Closed(x) /\ x # p /\ Listed(p) /\ HeardFrom(p, x)) =>
                /\ Len(sent'[p]) = Len(sent[p]) + 1
                /\ sent'[p][Len(sent'[p])].cause = "remove"
          /\ (Established(p) /\ Listed(x) /\ peer[x].awareness_json # <<>>) =>
                \E i \in 1..Len(sent'[p]) :
                   sent'[p][i].from = x /\ sent'[p][i].cause = "prime"]_vars

\* the operations an update carries
OpsOf(update) == apply_update({}, update).doc

\* the operations of the SYNC_STEP2 frames enqueued on peer p so far
DeliveredOps(p) ==
    UNION {OpsOf(decode_sync_step2(sent[p][k].data).payload) :
             k \in {i \in 1..Len(sent[p]) :
                      sent[p][i].cause \in {"reply", "update"}}}

\* C32: every update the server applied that a synced peer did not send
\* itself is contained in the SYNC_STEP2 frames enqueued on that peer, as
\* part of its handshake reply or as a later broadcast
C32_NoLostUpdate ==
    \A p \in Wsi :
       (Listed(p) /\ peer[p].synced) =>
          \A i \in 1..Len(applied) :
             applied[i].from # p =>
                OpsOf(applied[i].payload) \subseteq DeliveredOps(p)

\* a peer got one applied update inside its handshake reply and another
\* one, applied afterwards, as a broadcast
C32_Witness ==
    \E p \in Wsi :
       /\ Listed(p) /\ peer[p].synced
       /\ Len(sent[p]) >= 2
       /\ sent[p][1].cause = "reply"
       /\ sent[p][2].cause = "update"
       /\ OpsOf(decode_sync_step2(sent[p][1].data).payload) # {}
       /\ ~(OpsOf(decode_sync_step2(sent[p][2].data).payload)
               \subseteq OpsOf(decode_sync_step2(sent[p][1].data).payload))

\* C33: every callback and the shutdown path run to completion with respect
\* to the locks: no lock is requested while it is already held, only held
\* locks are released, and none is held when the callback returns.
C33_HandlersComplete ==
    Running =>
       /\ (AtOp /\ Op.op = "set") => ~Holds(Op.n)
       /\ (AtOp /\ Op.op = "unset") => Holds(Op.n)
       /\ call.pc > Len(Events) => ret.held = <<>>

C33_Witness ==
    /\ call.fn = "Closed" /\ Len(g_peers) = MaxPeers
    /\ peer[call.w].client_id # U32(0)
    /\ call.pc > Len(Events)
    /\ ret.held = <<>>

PeerData == {"pending_queue", "client_id", "awareness_json"}

\* C34 as stated: every read and write of a peer's queue, client id and
\* cached presence document happens while that peer's lock is held.
C34_AllPeerDataUnderLock ==
    (AtOp /\ Op.op = "access" /\ Op.field \in PeerData) => Holds(Op.n)

\* C34: every read and write of the message queue of a listed peer happens
\* while that peer's lock is held; the client id and the cached presence
\* document are read and written without it.
C34_QueueUnderLock ==
    /\ (AtOp /\ Op.op = "access" /\ Op.field = "pending_queue")
          => Holds(Op.n)
    /\ (AtOp /\ Op.op = "access"
              /\ Op.field \in {"client_id", "awareness_json"})
          => ~Holds(Op.n)

C34_Witness ==
    /\ call.fn = "Writeable" /\ AtOp
    /\ Op = Acc(call.w, "pending_queue")
    /\ ret.held = <<call.w>>

\* C35: when both kinds of lock are held, the registry lock was acquired
\* first, and the peer's lock is released before the registry lock.
C35_LockOrder ==
    Running =>
       /\ \A i \in 2..Len(ret.held) : ret.held[i] # G
       /\ Len(ret.held) <= 2
       /\ (AtOp /\ Op.op = "unset" /\ Op.n = G) => ret.held = <<G>>

C35_Witness ==
    /\ AtOp /\ Op.op = "unset" /\ Op.n # G
    /\ ret.held = <<G, Op.n>>

\* C36: the registry lock is never held while a frame is handed to the
\* transport.
C36_NoRegistryLockAtWrite ==
    (AtOp /\ Op.op = "lws_write") => ~Holds(G)

C36_Witness ==
    /\ AtOp /\ Op.op = "lws_write"
    /\ ret.held = <<>>
    /\ Len(g_peers) > 1

\* C40: every edit made locally on the client, also one made before the
\* socket opened or before the initial sync completed, eventually reaches
\* the server replica once the client is connected and synced.
C40_EditsReachServer ==
    \A op \in Ops :
       (op \in call.doc /\ call.connected /\ call.synced)
          ~> (op \in g_document)

====
